---- MODULE Spec2Model ----
(***************************************************************************)
(* Shared<T> (src/src/lib.rs): a handle around Rc<RefCell<T>> whose        *)
(* accessors go through RefCell::as_ptr, so the cell's borrow flag is      *)
(* never consulted by them.                                                *)
(*                                                                         *)
(* The heap is a set of allocations (RcBox<RefCell<T>>), each with its     *)
(* strong count, its RefCell borrow flag and the wrapped value.  A handle  *)
(* is a variable of the caller holding a Shared<T>; a cell is a variable   *)
(* of the caller holding a bare Rc<RefCell<T>>, the argument type of the   *)
(* public conversion From<SharedData<T>>.  References returned by the      *)
(* accessors carry no runtime state: an access is a pointer computation    *)
(* followed by the caller's load or store.                                 *)
(***************************************************************************)
EXTENDS Integers, FiniteSets, Sequences, TLC

\* ---------------------------------------------------------------- bounds
MaxHandles == 2
MaxAllocs == 2
MaxCells == 1
MaxVal == 1

\* ------------------------------------------------------------- constants
NULL == 0               \* a variable that holds no handle / no Rc
UNUSED == 0             \* RefCell borrow flag: not borrowed
WRITING == -1           \* RefCell borrow flag: mutably borrowed
Poison == -2            \* contents of a deallocated RcBox
DefaultValue == 0       \* <i32 as Default>::default()
Original1 == 228
Original2 == 1337
Original3 == 177013
Placeholder == 0

\* Before the caller's first statement.
NoStatement == [op |-> "init", h |-> NULL, v |-> NULL]

Handles == 1..MaxHandles
Allocs == 1..MaxAllocs
Cells == 1..MaxCells
Vals == 0..MaxVal

VARIABLES
    data,       \* data[h]: the allocation handle h's field `data` points to, or NULL
    strong,     \* strong[a]: Rc strong count of allocation a; 0 = not allocated
    value,      \* value[a]: the T inside the RefCell of allocation a
    borrow,     \* borrow[a]: the RefCell's borrow flag
    cells,      \* cells[c]: the allocation the caller's Rc<RefCell<T>> c points to, or NULL
    guard,      \* guard[c]: the caller holds a RefMut obtained from cell c
    panicked,   \* some operation unwound with a panic
    root,       \* root[h]: the construction handle h traces back to through clones
    last,       \* the caller's last statement: operation, handle, argument or result
    pc,         \* position in tests::example ("api" outside it)
    idx         \* loop index of tests::example

vars == <<data, strong, value, borrow, cells, guard, panicked, root, last, pc, idx>>
heap == <<strong, value, borrow>>

\* ------------------------------------------------------ state functions
Live(h) == data[h] # NULL
LiveHandles == {h \in DOMAIN data : Live(h)}
Allocated(a) == strong[a] > 0
FreeAllocs == {a \in DOMAIN strong : ~Allocated(a)}
HandlesOf(a) == {h \in DOMAIN data : data[h] = a}
CellsOf(a) == {c \in DOMAIN cells : cells[c] = a}
Aliases(h) == HandlesOf(data[h])

\* RefCell::as_ptr: the address of the value inside allocation a.
as_ptr(a) == [alloc |-> a, field |-> "value"]

\* What a panic leaves in place of the reference.
Unwound == [alloc |-> NULL, field |-> "panic"]

\* A load through a pointer.
load(p) == value[p.alloc]

\* Rc::strong_count(&self.data)
use_count(h) == strong[data[h]]

\* unsafe { &*self.data.as_ptr() }
deref(h) == as_ptr(data[h])

\* Faulty variant: the mutable accessor goes through the cell's borrow flag.
deref_mut_checked(h) ==
    IF borrow[data[h]] # UNUSED THEN Unwound ELSE as_ptr(data[h])

\* unsafe { &mut *self.data.as_ptr() }
deref_mut(h) == as_ptr(data[h])

\* &**self
as_ref(h) == deref(h)

\* &mut **self
as_mut(h) == deref_mut(h)

\* Faulty variant: equality of the wrapped values.
eq_by_value(h1, h2) == load(as_ref(h1)) = load(as_ref(h2))

\* self.as_ref() as *const T == other.as_ref() as *const T
eq(h1, h2) == as_ref(h1) = as_ref(h2)

\* {:?} of Rc<RefCell<T>>: RefCell's Debug does try_borrow and shows
\* RefCell { value: .. } with the value, or with <borrowed> when the
\* cell is mutably borrowed.
refcell_debug(a) ==
    [RefCell |->
        [value |-> IF borrow[a] # WRITING THEN ToString(value[a]) ELSE "<borrowed>"]]

\* format!("Shared {{ data: {:?} }}", self.data), then f.write_str(..):
\* the text, and the formatter's verdict on writing it.
fmt(h, sinkOk) ==
    [text |-> [Shared |-> [data |-> refcell_debug(data[h])]],
     res |-> IF sinkOk THEN "Ok" ELSE "Err"]

\* ------------------------------------------------------------- Rc steps
\* Rc::new(RefCell::new(v)) placed at the free address a.
rc_new(a, v) ==
    /\ strong' = [strong EXCEPT ![a] = 1]
    /\ value' = [value EXCEPT ![a] = v]
    /\ borrow' = [borrow EXCEPT ![a] = UNUSED]

\* Rc::clone: one more strong reference.
rc_clone(a) ==
    /\ strong' = [strong EXCEPT ![a] = @ + 1]
    /\ UNCHANGED <<value, borrow>>

\* Rc's Drop: one strong reference fewer; the last one destroys the value
\* and deallocates.
rc_drop(a) ==
    /\ strong' = [strong EXCEPT ![a] = @ - 1]
    /\ value' = IF strong[a] = 1 THEN [value EXCEPT ![a] = Poison] ELSE value
    /\ borrow' = IF strong[a] = 1 THEN [borrow EXCEPT ![a] = UNUSED] ELSE borrow

\* ------------------------------------------------------ handle operations
\* Shared { data }: wrap the Rc that was passed in.
from_data(h, a) ==
    /\ ~Live(h)
    /\ data' = [data EXCEPT ![h] = a]

\* Faulty variant: the value passed in is dropped for T's default.
new_default(h, v) ==
    /\ ~Live(h)
    /\ \E a \in FreeAllocs :
        /\ rc_new(a, DefaultValue)
        /\ data' = [data EXCEPT ![h] = a]
    /\ UNCHANGED <<cells, guard, panicked>>

\* Shared { data: SharedData::new(RefCell::new(value)) }
new(h, v) ==
    /\ ~Live(h)
    /\ \E a \in FreeAllocs :
        /\ rc_new(a, v)
        /\ data' = [data EXCEPT ![h] = a]
    /\ UNCHANGED <<cells, guard, panicked>>

\* Shared::new(value)
from_value(h, v) == new(h, v)

\* Faulty variant: every default handle shares one allocation holding the default.
default_shared(h) ==
    /\ ~Live(h)
    /\ LET defaults == {a \in DOMAIN strong : Allocated(a) /\ value[a] = DefaultValue}
       IN  IF defaults = {}
           THEN \E a \in FreeAllocs :
                    /\ rc_new(a, DefaultValue)
                    /\ data' = [data EXCEPT ![h] = a]
           ELSE \E a \in defaults :
                    /\ rc_clone(a)
                    /\ data' = [data EXCEPT ![h] = a]
    /\ UNCHANGED <<cells, guard, panicked>>

\* Shared::new(Default::default())
default(h) == new(h, DefaultValue)

\* Faulty variant: clone copies the value into an allocation of its own.
clone_deep(h, h2) ==
    /\ Live(h)
    /\ ~Live(h2)
    /\ \E a \in FreeAllocs :
        /\ rc_new(a, value[data[h]])
        /\ data' = [data EXCEPT ![h2] = a]
    /\ UNCHANGED <<cells, guard, panicked>>

\* Faulty variant: clone copies the pointer and leaves the count alone.
clone_uncounted(h, h2) ==
    /\ Live(h)
    /\ from_data(h2, data[h])
    /\ UNCHANGED <<heap, cells, guard, panicked>>

\* From::from(self.data.clone())
clone(h, h2) ==
    /\ Live(h)
    /\ rc_clone(data[h])
    /\ from_data(h2, data[h])
    /\ UNCHANGED <<cells, guard, panicked>>

\* Drop glue of Shared: drops the field `data`.
drop(h) ==
    /\ Live(h)
    /\ rc_drop(data[h])
    /\ data' = [data EXCEPT ![h] = NULL]
    /\ UNCHANGED <<cells, guard, panicked>>

\* The caller's store through the reference an accessor returned.
store(p, v) ==
    IF p = Unwound
    THEN /\ panicked' = TRUE
         /\ UNCHANGED <<data, heap, cells, guard>>
    ELSE /\ value' = [value EXCEPT ![p.alloc] = v]
         /\ UNCHANGED <<data, strong, borrow, cells, guard, panicked>>

\* The caller's load through the reference an accessor returned.
fetch(p) ==
    /\ panicked' = (panicked \/ p = Unwound)
    /\ UNCHANGED <<data, heap, cells, guard>>

\* ------------------------------------------------- the caller: API steps
Note(op, h, v) == last' = [op |-> op, h |-> h, v |-> v]

\* let h = Shared::new(v);
New(h, v) ==
    /\ new(h, v)
    /\ root' = [root EXCEPT ![h] = data'[h]]
    /\ Note("new", h, v)

\* let h: Shared<T> = v.into();
FromValue(h, v) ==
    /\ from_value(h, v)
    /\ root' = [root EXCEPT ![h] = data'[h]]
    /\ Note("from_value", h, v)

\* let h = Shared::default();
Default(h) ==
    /\ default(h)
    /\ root' = [root EXCEPT ![h] = data'[h]]
    /\ Note("default", h, DefaultValue)

\* let h2 = h.clone();
Clone(h, h2) ==
    /\ clone(h, h2)
    /\ root' = [root EXCEPT ![h2] = root[h]]
    /\ Note("clone", h2, h)

\* drop(h), or h going out of scope
Drop(h) ==
    /\ drop(h)
    /\ root' = [root EXCEPT ![h] = NULL]
    /\ Note("drop", h, NULL)

\* let h = Shared::from(rc): the caller's Rc is moved into the handle.
FromMoved(h, c) ==
    /\ cells[c] # NULL
    /\ ~guard[c]
    /\ from_data(h, cells[c])
    /\ cells' = [cells EXCEPT ![c] = NULL]
    /\ root' = [root EXCEPT ![h] = cells[c]]
    /\ Note("from_data", h, c)
    /\ UNCHANGED <<heap, guard, panicked>>

\* let h = Shared::from(rc.clone()): the caller keeps its Rc.
FromCloned(h, c) ==
    /\ cells[c] # NULL
    /\ rc_clone(cells[c])
    /\ from_data(h, cells[c])
    /\ root' = [root EXCEPT ![h] = cells[c]]
    /\ Note("from_data", h, c)
    /\ UNCHANGED <<cells, guard, panicked>>

\* let x = *h;
ReadDeref(h) ==
    /\ Live(h)
    /\ fetch(deref(h))
    /\ Note("deref", h, NULL)
    /\ UNCHANGED root

\* let x = *h.as_ref();
ReadAsRef(h) ==
    /\ Live(h)
    /\ fetch(as_ref(h))
    /\ Note("as_ref", h, NULL)
    /\ UNCHANGED root

\* *h = v;
WriteDerefMut(h, v) ==
    /\ Live(h)
    /\ store(deref_mut(h), v)
    /\ Note("deref_mut", h, v)
    /\ UNCHANGED root

\* *h.as_mut() = v;
WriteAsMut(h, v) ==
    /\ Live(h)
    /\ store(as_mut(h), v)
    /\ Note("as_mut", h, v)
    /\ UNCHANGED root

\* let r = write!(w, "{:?}", h); the writer w accepts the text or not.
Fmt(h, sinkOk) ==
    /\ Live(h)
    /\ Note("fmt", h, fmt(h, sinkOk))
    /\ UNCHANGED <<data, heap, cells, guard, panicked, root>>

\* ------------------------------------- the caller: its own Rc<RefCell<T>>
\* let rc: SharedData<T> = Rc::new(RefCell::new(v));
CellNew(c, v) ==
    /\ cells[c] = NULL
    /\ \E a \in FreeAllocs :
        /\ rc_new(a, v)
        /\ cells' = [cells EXCEPT ![c] = a]
    /\ Note("cell_new", NULL, v)
    /\ UNCHANGED <<data, guard, panicked, root>>

\* drop(rc);
CellDrop(c) ==
    /\ cells[c] # NULL
    /\ ~guard[c]
    /\ rc_drop(cells[c])
    /\ cells' = [cells EXCEPT ![c] = NULL]
    /\ Note("cell_drop", NULL, c)
    /\ UNCHANGED <<data, guard, panicked, root>>

\* let g = rc.borrow_mut(); taken while the cell is not borrowed.
CellBorrowMut(c) ==
    /\ cells[c] # NULL
    /\ borrow[cells[c]] = UNUSED
    /\ borrow' = [borrow EXCEPT ![cells[c]] = WRITING]
    /\ guard' = [guard EXCEPT ![c] = TRUE]
    /\ Note("cell_borrow_mut", NULL, c)
    /\ UNCHANGED <<data, strong, value, cells, panicked, root>>

\* drop(g);
CellRelease(c) ==
    /\ guard[c]
    /\ borrow' = [borrow EXCEPT ![cells[c]] = UNUSED]
    /\ guard' = [guard EXCEPT ![c] = FALSE]
    /\ Note("cell_release", NULL, c)
    /\ UNCHANGED <<data, strong, value, cells, panicked, root>>

\* ---------------------------------------------------------- specification
Init ==
    /\ data = [h \in Handles |-> NULL]
    /\ strong = [a \in Allocs |-> 0]
    /\ value = [a \in Allocs |-> Poison]
    /\ borrow = [a \in Allocs |-> UNUSED]
    /\ cells = [c \in Cells |-> NULL]
    /\ guard = [c \in Cells |-> FALSE]
    /\ panicked = FALSE
    /\ root = [h \in Handles |-> NULL]
    /\ last = NoStatement
    /\ pc = "api"
    /\ idx = 0

Idle == UNCHANGED <<pc, idx>>

Next ==
    \/ \E h \in Handles, v \in Vals : New(h, v) /\ Idle
    \/ \E h \in Handles, v \in Vals : FromValue(h, v) /\ Idle
    \/ \E h \in Handles : Default(h) /\ Idle
    \/ \E h \in Handles, h2 \in Handles : Clone(h, h2) /\ Idle
    \/ \E h \in Handles : Drop(h) /\ Idle
    \/ \E h \in Handles, c \in Cells : FromMoved(h, c) /\ Idle
    \/ \E h \in Handles, c \in Cells : FromCloned(h, c) /\ Idle
    \/ \E h \in Handles : ReadDeref(h) /\ Idle
    \/ \E h \in Handles : ReadAsRef(h) /\ Idle
    \/ \E h \in Handles, v \in Vals : WriteDerefMut(h, v) /\ Idle
    \/ \E h \in Handles, v \in Vals : WriteAsMut(h, v) /\ Idle
    \/ \E h \in Handles, sinkOk \in BOOLEAN : Fmt(h, sinkOk) /\ Idle
    \/ \E c \in Cells, v \in Vals : CellNew(c, v) /\ Idle
    \/ \E c \in Cells : CellDrop(c) /\ Idle
    \/ \E c \in Cells : CellBorrowMut(c) /\ Idle
    \/ \E c \in Cells : CellRelease(c) /\ Idle

Spec == Init /\ [][Next]_vars

\* ------------------------------------------------- tests::example, run
Originals == <<Original1, Original2, Original3>>
Placeholders == <<Placeholder, Placeholder, Placeholder>>

\* `data` is handles 1..3; `work_zone` is the handles after them: the
\* placeholders, then the clones pushed by the first loop.
DataLen == Len(Originals)
ZoneLen == Len(Placeholders) + DataLen
DataAt(i) == i
ZoneAt(j) == DataLen + j
ExampleHandles == 1..(DataLen + ZoneLen)
ExampleAllocs == 1..(DataLen + ZoneLen)

ExampleInit ==
    /\ data = [h \in ExampleHandles |-> NULL]
    /\ strong = [a \in ExampleAllocs |-> 0]
    /\ value = [a \in ExampleAllocs |-> Poison]
    /\ borrow = [a \in ExampleAllocs |-> UNUSED]
    /\ cells = <<>>
    /\ guard = <<>>
    /\ panicked = FALSE
    /\ root = [h \in ExampleHandles |-> NULL]
    /\ last = NoStatement
    /\ pc = "data"
    /\ idx = 1

\* Move on in a loop of n rounds, or to the statement after it.
Advance(n, after) ==
    IF idx < n THEN idx' = idx + 1 /\ pc' = pc ELSE idx' = 1 /\ pc' = after

\* let mut data = [shared!(228), shared!(1337), shared!(177013)];
MakeData ==
    /\ pc = "data"
    /\ New(DataAt(idx), Originals[idx])
    /\ Advance(DataLen, "work_zone")

\* let mut work_zone = vec![shared!(0), shared!(0), shared!(0)];
MakeWorkZone ==
    /\ pc = "work_zone"
    /\ New(ZoneAt(idx), Placeholders[idx])
    /\ Advance(Len(Placeholders), "push")

\* for item in data.into_iter() { work_zone.push(item.clone()); }
Push ==
    /\ pc = "push"
    /\ Clone(DataAt(idx), ZoneAt(Len(Placeholders) + idx))
    /\ Advance(DataLen, "as_mut")

\* *item.as_mut() += 1;
IncAsMut ==
    /\ pc = "as_mut"
    /\ WriteAsMut(ZoneAt(idx), load(as_mut(ZoneAt(idx))) + 1)
    /\ pc' = "deref_mut"
    /\ UNCHANGED idx

\* *item += 1;
IncDerefMut ==
    /\ pc = "deref_mut"
    /\ WriteDerefMut(ZoneAt(idx), load(deref_mut(ZoneAt(idx))) + 1)
    /\ pc' = "end_of_body"
    /\ UNCHANGED idx

\* } : `item` goes out of scope
DropItem ==
    /\ pc = "end_of_body"
    /\ Drop(ZoneAt(idx))
    /\ IF idx < ZoneLen
       THEN idx' = idx + 1 /\ pc' = "as_mut"
       ELSE idx' = 1 /\ pc' = "println"

\* println!("{:?}", data)
Println ==
    /\ pc = "println"
    /\ Note("println", NULL, [i \in 1..DataLen |-> fmt(DataAt(i), TRUE).text])
    /\ pc' = "return"
    /\ UNCHANGED <<data, heap, cells, guard, panicked, root, idx>>

\* } : `data` goes out of scope, element by element
DropData ==
    /\ pc = "return"
    /\ Drop(DataAt(idx))
    /\ Advance(DataLen, "done")

ExampleNext ==
    \/ MakeData
    \/ MakeWorkZone
    \/ Push
    \/ IncAsMut
    \/ IncDerefMut
    \/ DropItem
    \/ Println
    \/ DropData

ExampleSpec == ExampleInit /\ [][ExampleNext]_vars

\* ------------------------------------------------------------ properties
Writes == {"deref_mut", "as_mut"}
Constructions == {"new", "from_value", "from_data", "default"}
HandleOps == Constructions \cup Writes \cup {"clone", "drop", "deref", "as_ref"}

\* The handles that trace back to the same construction as h.
Lineage(h) == {g \in LiveHandles : root[g] = root[h]}

\* C1: handles that trace back to one construction, or that alias one
\* allocation, read the same value; and right after a write of v through
\* a handle, every one of them reads v.
C1_AliasesObserveWrites ==
    /\ \A h1 \in LiveHandles, h2 \in LiveHandles :
        (root[h1] = root[h2] \/ data[h1] = data[h2])
            => load(deref(h1)) = load(as_ref(h2))
    /\ last.op \in Writes =>
        \A g \in Lineage(last.h) \cup Aliases(last.h) :
            load(deref(g)) = last.v /\ load(as_ref(g)) = last.v

C1_Witness ==
    /\ last.op \in Writes
    /\ last.v # DefaultValue
    /\ \E g \in Lineage(last.h) : g # last.h /\ load(deref(g)) = last.v

\* C2: use_count() of a live handle is the number of live handles that
\* alias its allocation.
C2_UseCountIsHandleCount ==
    \A h \in LiveHandles : use_count(h) = Cardinality(Aliases(h))

\* C3: no live handle refers to a destroyed allocation; dropping a handle
\* takes one off its allocation's count; and the allocation is destroyed
\* by that drop exactly when the handle was the last one aliasing it.
C3_DestroyedWithLastHandle ==
    /\ [](\A h \in LiveHandles : Allocated(data[h]))
    /\ [][\A h \in DOMAIN data :
            (Live(h) /\ data'[h] = NULL) =>
                /\ strong'[data[h]] = strong[data[h]] - 1
                /\ (Aliases(h) = {h}) <=> (strong'[data[h]] = 0)]_vars

\* C4: a == b exactly when a and b point to the same allocation, whatever
\* the wrapped values are; a handle and its clones stay equal.
C4_EqIsIdentity ==
    \A h1 \in LiveHandles, h2 \in LiveHandles :
        /\ eq(h1, h2) <=> (data[h1] = data[h2])
        /\ root[h1] = root[h2] => eq(h1, h2)

C4_Witness ==
    \E h1 \in LiveHandles, h2 \in LiveHandles :
        /\ ~eq(h1, h2)
        /\ load(deref(h1)) = load(deref(h2))

\* C5: a handle made by anything but clone is the only holder of its
\* allocation: no other handle aliases it and no Rc outside a handle
\* points to it.
C5_OnlyCloneAliases ==
    last.op \in Constructions =>
        /\ Aliases(last.h) = {last.h}
        /\ CellsOf(data[last.h]) = {}

\* C6: clone binds the new handle to the source's allocation, adds one to
\* that allocation's count, and changes nothing else: no allocation
\* appears, no value, no other count, no other handle changes.
C6_CloneFrame ==
    [][last'.op = "clone" =>
        LET h2 == last'.h
            h == last'.v
        IN  /\ Live(h)
            /\ ~Live(h2)
            /\ data' = [data EXCEPT ![h2] = data[h]]
            /\ strong' = [strong EXCEPT ![data[h]] = strong[data[h]] + 1]
            /\ value' = value
            /\ borrow' = borrow
            /\ cells' = cells]_vars

C6_Witness ==
    /\ last.op = "clone"
    /\ eq(last.h, last.v)
    /\ use_count(last.h) = 2
    /\ \E a \in DOMAIN strong : Allocated(a) /\ a # data[last.h]

\* C7: a default-constructed handle holds T's default with count 1 and is
\* equal to no handle that already exists (so neither to an earlier
\* default handle); handles keep their allocation while they live; and a
\* write through a handle leaves the value of every handle not equal to
\* it unchanged.
C7_DefaultIsIndependent ==
    /\ [](last.op = "default" =>
            /\ use_count(last.h) = 1
            /\ load(deref(last.h)) = DefaultValue
            /\ CellsOf(data[last.h]) = {}
            /\ \A g \in LiveHandles \ {last.h} : ~eq(g, last.h))
    /\ [][\A h \in DOMAIN data :
            (Live(h) /\ data'[h] # NULL) => data'[h] = data[h]]_vars
    /\ [][last'.op \in Writes =>
            \A g \in LiveHandles :
                ~eq(g, last'.h) => (value'[data'[g]] = value[data[g]])]_vars

C7_Witness ==
    /\ last.op = "default"
    /\ \E g \in LiveHandles :
        /\ g # last.h
        /\ ~eq(g, last.h)
        /\ use_count(g) = 1
        /\ load(deref(g)) = DefaultValue

\* C8: new(v), and the conversion from v, succeed and leave a handle that
\* is the only holder of its allocation, with count 1, reading v.
C8_NewWrapsValue ==
    last.op \in {"new", "from_value"} =>
        /\ ~panicked
        /\ Live(last.h)
        /\ use_count(last.h) = 1
        /\ Aliases(last.h) = {last.h}
        /\ CellsOf(data[last.h]) = {}
        /\ load(deref(last.h)) = last.v

C8_Witness ==
    /\ last.op = "from_value"
    /\ last.v # DefaultValue
    /\ load(deref(last.h)) = last.v
    /\ \E a \in DOMAIN strong : Allocated(a) /\ a # data[last.h]

\* C9: in tests::example, when the second loop is over every element of
\* `data` reads its original value + 2 (and is printed so); every
\* placeholder holds 2 when its round ends; and an increment changes the
\* value of no allocation but the item's.
C9_ExampleAddsTwo ==
    /\ [](pc = "println" =>
            \A i \in 1..DataLen : load(deref(DataAt(i))) = Originals[i] + 2)
    /\ [](last.op = "println" =>
            \A i \in 1..DataLen :
                last.v[i] = [Shared |-> [data |-> [RefCell |-> [value |-> ToString(Originals[i] + 2)]]]])
    /\ [](pc = "end_of_body" /\ idx <= Len(Placeholders) =>
            load(deref(ZoneAt(idx))) = Placeholders[idx] + 2)
    /\ [][(pc \in {"as_mut", "deref_mut"}) =>
            \A a \in DOMAIN value :
                a # data[ZoneAt(idx)] => (value'[a] = value[a])]_vars

C9_Witness ==
    /\ pc = "println"
    /\ \A i \in 1..DataLen : load(deref(DataAt(i))) = Originals[i] + 2
    /\ \A j \in 1..ZoneLen : ~Live(ZoneAt(j))

\* C10 as stated: no operation on a handle panics, checks the borrow flag
\* or returns a failure: Debug formatting too shows the value and
\* returns Ok whatever the borrow flag and the formatter say.
C10_NothingChecksBorrows ==
    (panicked \/ last.op = "fmt") =>
        /\ ~panicked
        /\ last.v.res = "Ok"
        /\ last.v.text =
            [Shared |-> [data |-> [RefCell |-> [value |-> ToString(load(deref(last.h)))]]]]

\* C10 as amended: the accessors, construction, clone and drop never
\* panic and never change the borrow flag; an accessor returns the
\* address of the wrapped value, and a store through it lands there,
\* whatever the borrow flag is.  Debug formatting alone consults the
\* flag: it shows "<borrowed>" for the value while the cell is mutably
\* borrowed, and returns what the formatter returns.
C10_AccessorsIgnoreBorrows ==
    /\ [](~panicked)
    /\ [](\A h \in LiveHandles :
            /\ deref(h) = as_ptr(data[h])
            /\ deref_mut(h) = as_ptr(data[h])
            /\ as_ref(h) = as_ptr(data[h])
            /\ as_mut(h) = as_ptr(data[h]))
    /\ [][last'.op \in HandleOps \cup {"fmt"} => borrow' = borrow]_vars
    /\ [][last'.op \in Writes => value'[data[last'.h]] = last'.v]_vars
    /\ [](last.op = "fmt" =>
            /\ last.v.res \in {"Ok", "Err"}
            /\ last.v.text.Shared.data.RefCell.value =
                IF borrow[data[last.h]] = WRITING
                THEN "<borrowed>"
                ELSE ToString(value[data[last.h]]))

C10_Witness ==
    /\ last.op \in Writes
    /\ borrow[data[last.h]] = WRITING
    /\ Cardinality(Aliases(last.h)) >= 2
    /\ \A g \in Aliases(last.h) : load(deref(g)) = last.v
    /\ ~panicked

====
